---- MODULE Spec2Model ----
(***************************************************************************)
(* Verification model of the fitbit-sync backend core: the segmentation    *)
(* functions of FitbitService, the persistence repositories (samples,      *)
(* sync_log, tokens), the rate-limited API client and the sync             *)
(* orchestrator.                                                            *)
(***************************************************************************)
EXTENDS Integers, Sequences, FiniteSets, TLC

VARIABLES
    dataset,        \* processStepsData: the per-minute step counts handed to the function
    stepSamples,    \* processStepsData: the samples it returned
    stepsPc,        \* "input" before the call, "done" after it
    now,            \* Date.now(), in clock ticks of one hour
    tokens,         \* the rows of the tokens table, oldest first
    issued,         \* the provider: the number of the latest credential pair it issued
    samples_table,  \* the rows of the samples table, oldest first
    sync_log,       \* the rows of the sync_log table, oldest first
    scopes,         \* FitbitService.scopes
    localDayShift,  \* the server's time zone: days by which the local date of a UTC
                    \* midnight lies before the UTC date (0 at or east of UTC, 1 west)
    inv,            \* the invocations of syncAllData / syncDateRange
    storeBatch,     \* store_samples called on its own: the batch it is given
    storeReturns,   \* the counts the calls of store_samples resolved with, in order
    tableBefore,    \* the samples table before the latest of these calls
    segKind,        \* a pipeline's segmentation step on its own: which pipeline
    response,       \* the data of the upstream response it is given
    segSamples,     \* the samples it produced
    segPc           \* "input" before the step, "done" after it, "threw" when it threw

stepsVars == <<dataset, stepSamples, stepsPc>>
dbVars == <<tokens, samples_table, sync_log>>
syncVars == <<now, issued, scopes, localDayShift, inv, dbVars>>

storeVars == <<storeBatch, storeReturns, tableBefore>>
segVars == <<segKind, response, segSamples, segPc>>
pureVars == <<stepsVars, storeVars, segVars>>

vars == <<stepsVars, storeVars, segVars, syncVars>>

Min(a, b) == IF a < b THEN a ELSE b

RECURSIVE SumSeq(_)
SumSeq(s) == IF s = <<>> THEN 0 ELSE Head(s) + SumSeq(Tail(s))

RECURSIVE Concat(_)
Concat(ss) == IF ss = <<>> THEN <<>> ELSE Head(ss) \o Concat(Tail(ss))

(***************************************************************************)
(* Bounds of the inputs.                                                   *)
(***************************************************************************)
MaxRuns == 3          \* a steps dataset is the concatenation of at most MaxRuns runs
MaxStepValue == 2     \* per-minute step counts range over 0..MaxStepValue

\* Run lengths: long enough to reach the 15-minute split and the 10-minute gap,
\* and the values just below them.
RunLens == {1, 4, 9, 10, 15}

Run(v, n) == [k \in 1..n |-> v]

StepsInputs ==
    UNION { { Concat([k \in 1..n |-> Run(r[k][1], r[k][2])]) :
                r \in [1..n -> (0..MaxStepValue) \X RunLens] } : n \in 0..MaxRuns }

(***************************************************************************)
(* JavaScript values: a value that may be null or undefined is a sequence  *)
(* of length 0 (null, undefined) or 1 (the value).                         *)
(***************************************************************************)
Null == <<>>
Some(v) == <<v>>

\* obj.f: undefined when the object has no property f
Prop(obj, f) == IF f \in DOMAIN obj THEN Some(obj[f]) ELSE Null

\* the truthiness test of `if (x)` and `x || y` on a number: null, undefined and 0
\* are falsy (instants are positive numbers in this model)
Truthy(x) == x # Null /\ x[1] # 0

\* x || y
OrElse(x, y) == IF Truthy(x) THEN x ELSE y

Max(a, b) == IF a > b THEN a ELSE b

(***************************************************************************)
(* SampleRepository.store_samples on the samples table                     *)
(*   UNIQUE(type, timestamp, start_time, end_time), INSERT OR IGNORE        *)
(***************************************************************************)

\* The row store_samples binds for one sample (stmt.run parameters).
SampleRow(sample) ==
    [type |-> sample.type,
     value |-> sample.value,
     timestamp |-> OrElse(Prop(sample, "timestamp"), OrElse(Prop(sample, "datetime"), Null)),
     start_time |-> OrElse(Prop(sample, "start_time"), OrElse(Prop(sample, "startTime"), Null)),
     end_time |-> OrElse(Prop(sample, "end_time"), OrElse(Prop(sample, "endTime"), Null))]

\* The UNIQUE constraint as the database engine evaluates it: two rows collide when
\* the four key columns are equal and none of them is NULL (a NULL in a key column is
\* distinct from every value, another NULL included).
UniqueConflict(a, b) ==
    /\ a.type = b.type
    /\ a.timestamp # Null /\ a.timestamp = b.timestamp
    /\ a.start_time # Null /\ a.start_time = b.start_time
    /\ a.end_time # Null /\ a.end_time = b.end_time

\* INSERT OR IGNORE of one row: a row that breaks NOT NULL (value) or UNIQUE is skipped.
Ignored(table, row) ==
    \/ row.value = Null
    \/ \E k \in 1..Len(table) : UniqueConflict(table[k], row)

\* The loop over the batch inside the transaction: the table after it and insert_count.
RECURSIVE InsertAll(_, _, _)
InsertAll(table, batch, insert_count) ==
    IF batch = <<>>
    THEN [table |-> table, insert_count |-> insert_count]
    ELSE LET row == SampleRow(Head(batch)) IN
         IF Ignored(table, row)
         THEN InsertAll(table, Tail(batch), insert_count)
         ELSE InsertAll(Append(table, row), Tail(batch), insert_count + 1)

\* store_samples(samples): the committed table and the resolved count
store_samples(table, batch) ==
    IF batch = <<>>
    THEN [table |-> table, insert_count |-> 0]
    ELSE InsertAll(table, batch, 0)

(***************************************************************************)
(* SyncLogRepository on the sync_log table                                 *)
(***************************************************************************)

\* update_sync_log: the row it inserts.  rate_limit_info is the object the caller
\* passes; `info` keeps it next to the row (it is no column of the table).
SyncLogRow(data_type, last_sync_time, status, rate_limit_info, error_message, clock) ==
    LET reset_timestamp ==
            IF Truthy(Prop(rate_limit_info, "reset_in"))
            THEN Some(clock + rate_limit_info.reset_in)
            ELSE IF Truthy(Prop(rate_limit_info, "reset_time"))
                 THEN Some(rate_limit_info.reset_time)
                 ELSE Null
    IN [data_type |-> data_type,
        last_sync_time |-> last_sync_time,
        status |-> status,
        rate_limit_remaining |-> OrElse(Prop(rate_limit_info, "remaining"), Null),
        rate_limit_reset |-> reset_timestamp,
        error_message |-> error_message,
        created_at |-> clock,
        info |-> rate_limit_info]

\* a ledger that keeps one row per data type, replacing the row of an earlier sync
update_sync_log_upsert(log, data_type, last_sync_time, status, rate_limit_info, error_message, clock) ==
    Append(SelectSeq(log, LAMBDA row : row.data_type # data_type),
           SyncLogRow(data_type, last_sync_time, status, rate_limit_info,
                      error_message, clock))

update_sync_log(log, data_type, last_sync_time, status, rate_limit_info, error_message, clock) ==
    Append(log, SyncLogRow(data_type, last_sync_time, status, rate_limit_info,
                           error_message, clock))

DefaultRemaining == 150

\* ORDER BY created_at DESC LIMIT 1 over the rows ks of the ledger.  created_at is
\* CURRENT_TIMESTAMP, which resolves to one second, and the query fixes no order
\* among rows of equal created_at: each of them is a row the query can return.
LatestRows(log, ks) == {k \in ks : \A j \in ks : log[j].created_at <= log[k].created_at}

\* SELECT ... WHERE rate_limit_remaining IS NOT NULL ORDER BY created_at DESC LIMIT 1
RateRows(log) == {k \in 1..Len(log) : log[k].rate_limit_remaining # Null}
HasRateRow(log) == RateRows(log) # {}

\* the snapshot row that was appended last
LatestRateRow(log) == log[CHOOSE k \in RateRows(log) : \A j \in RateRows(log) : j <= k]

\* what get_rate_limit_status makes of the row the query returned
RateLimitStatus(row, clock) ==
    LET reset_timestamp == row.rate_limit_reset
    IN IF Truthy(reset_timestamp) /\ clock >= reset_timestamp[1]
       THEN [rate_limit_remaining |-> DefaultRemaining, rate_limit_reset |-> 0]
       ELSE [rate_limit_remaining |-> row.rate_limit_remaining[1],
             rate_limit_reset |-> IF Truthy(reset_timestamp)
                                  THEN Max(0, reset_timestamp[1] - clock)
                                  ELSE 0]

\* the values get_rate_limit_status can resolve to
get_rate_limit_status(log, clock) ==
    IF ~HasRateRow(log)
    THEN {[rate_limit_remaining |-> DefaultRemaining, rate_limit_reset |-> 0]}
    ELSE {RateLimitStatus(log[k], clock) : k \in LatestRows(log, RateRows(log))}

\* SELECT last_sync_time ... WHERE data_type = ? AND status = "success"
\* ORDER BY created_at DESC LIMIT 1
SuccessRows(log, data_type) ==
    {k \in 1..Len(log) : log[k].data_type = data_type /\ log[k].status = "success"}

\* the values get_latest_sync_time can resolve to
get_latest_sync_time(log, data_type) ==
    IF SuccessRows(log, data_type) = {}
    THEN {Null}
    ELSE {Some(log[k].last_sync_time) : k \in LatestRows(log, SuccessRows(log, data_type))}

(***************************************************************************)
(* TokenRepository on the tokens table                                     *)
(***************************************************************************)

\* get_tokens: SELECT * FROM tokens ORDER BY created_at DESC LIMIT 1: the values it
\* can resolve to (created_at is CURRENT_TIMESTAMP, as in the ledger)
get_tokens(table) ==
    IF table = <<>>
    THEN {Null}
    ELSE {Some(table[k]) : k \in LatestRows(table, 1..Len(table))}

\* the row store_tokens inserts: expires_at is computed on entry, created_at is the
\* CURRENT_TIMESTAMP of the INSERT
TokenRow(access_token, refresh_token, expires_at, created_at) ==
    [access_token |-> access_token, refresh_token |-> refresh_token,
     expires_at |-> expires_at, created_at |-> created_at]

(***************************************************************************)
(* FitbitService: configuration, upstream responses, pipelines             *)
(***************************************************************************)
Invs == {1, 2}

MaxClock == 2         \* the clock runs from 0 to MaxClock
Max401 == 2           \* 401 answers the upstream gives to one invocation
MaxIssued == 2        \* credential pairs the provider issues in one behaviour
MaxRangeDays == 2     \* days of a date range that passes validation

\* a refresh window of two hours
RefreshWindowWide == 1 + 1
\* `(tokens.expires_at - Date.now()) < 3600000`: one hour is one clock tick
RefreshWindow == 1
\* expires_in of the provider's token response (8 hours)
TokenTtl == 8
maxDays == 30
SyncAllMinimumLow == 10 - 6
SyncAllMinimum == 10
RequestsPerDate == 4

Today == 1

\* the pipelines called with sleep first
TypeOrderSleepFirst == <<"sleep", "activity", "heartrate", "other">>
\* the order in which syncAllData and syncDateRange call the pipelines
TypeOrder == <<"activity", "heartrate", "sleep", "other">>
DefaultScopes == {"activity", "heartrate", "sleep"}
OptionalScopes == {"oxygen_saturation", "respiratory_rate", "temperature"}

\* the data_type a pipeline writes to the sync_log
LogType(type) == IF type = "other" THEN "other_health_data" ELSE type

\* the endpoints a pipeline requests, in order
Requests(type, sc) ==
    CASE type = "activity" -> <<"steps", "calories">>
      [] type = "heartrate" -> <<"heart">>
      [] type = "sleep" -> <<"sleep">>
      [] type = "other" ->
            (IF "oxygen_saturation" \in sc THEN <<"spo2">> ELSE <<>>)
            \o (IF "respiratory_rate" \in sc THEN <<"br">> ELSE <<>>)
            \o (IF "temperature" \in sc THEN <<"temp">> ELSE <<>>)

\* The date a pipeline works on: dateStr, or today (the previous day for sleep).
PipelineDate(type, dateStr) ==
    IF dateStr # Null THEN dateStr[1]
    ELSE IF type = "sleep" THEN Today - 1 ELSE Today

\* The samples a pipeline derives from the 200 response of one endpoint for one date
\* (the upstream returns the same document whenever it is asked for the same date).
\* An instant is the number 10 * date + minute.
EndpointSamples(req, date) ==
    CASE req = "steps" -> <<[type |-> "steps", value |-> Some(7), datetime |-> 10 * date + 1]>>
      [] req = "calories" -> <<[type |-> "activeCalories", value |-> Some(3), datetime |-> 10 * date + 2]>>
      [] req = "heart" -> <<[type |-> "heartRate", value |-> Some(60), datetime |-> 10 * date + 3]>>
      [] req = "sleep" -> <<[type |-> "sleepAnalysis", value |-> Some(1), datetime |-> 10 * date + 4],
                            [type |-> "sleepAnalysis", value |-> Some(2), datetime |-> 10 * date + 5]>>
      [] req = "spo2" -> <<[type |-> "oxygenSaturation", value |-> Some(97), datetime |-> 10 * date + 6]>>
      [] req = "br" -> <<[type |-> "respiratoryRate", value |-> Some(14), datetime |-> 10 * date + 7]>>
      [] req = "temp" -> <<[type |-> "bodyTemperature", value |-> Some(98), datetime |-> 10 * date + 8]>>

\* the samples a pipeline has collected when every request of it was answered
PipelineBatch(type, date, sc) ==
    Concat([k \in 1..Len(Requests(type, sc)) |-> EndpointSamples(Requests(type, sc)[k], date)])

\* the values of the fitbit-rate-limit-remaining / -reset headers of a response
\* (Null: the header is missing)
\* the rate-limit headers of a 200 response: missing, or a budget that is below the
\* minimum of a single-day sync and above that of a one-day range
ResponseHeaders ==
    {[remaining |-> Null, reset |-> Null],
     [remaining |-> Some(5), reset |-> Some(2)]}

\* parseInt(header) || 0
HeaderOr(h, d) == IF Truthy(h) THEN h[1] ELSE d

\* extractRateLimitInfo(response); resetTime is the top of the next hour
extractRateLimitInfo(remainingHeader, resetHeader, clock) ==
    [remaining |-> HeaderOr(remainingHeader, 0),
     resetIn |-> HeaderOr(resetHeader, 0),
     limit |-> DefaultRemaining,
     resetTime |-> clock + 1,
     used |-> DefaultRemaining - HeaderOr(remainingHeader, 0)]

\* getDateRange(startDate, endDate): Null when it throws.  new Date('YYYY-MM-DD') is
\* midnight UTC of the day, and getLocalDateString formats each day of the loop with
\* the local getters, which west of UTC give the day before.
getDateRange(startDate, endDate) ==
    IF startDate > endDate THEN Null
    ELSE IF (endDate - startDate) + 1 > maxDays THEN Null
    ELSE Some([k \in 1..(endDate - startDate + 1) |-> startDate + k - 1 - localDayShift])

(***************************************************************************)
(* One invocation of syncAllData / syncDateRange                           *)
(***************************************************************************)
IdleInv ==
    [pc |-> "idle",       \* where the invocation stands
     kind |-> "none",     \* "all": syncAllData, "range": syncDateRange
     dates |-> <<>>,      \* the dateStr of each day to process (Null: no date given)
     dateIdx |-> 0,       \* the day being processed
     types |-> Null,      \* sampleTypes (Null: not given)
     typeIdx |-> 0,       \* the position in TypeOrder of the running pipeline
     reqIdx |-> 0,        \* the request of the pipeline being made
     pipeNow |-> 0,       \* `now` of the running pipeline
     info |-> <<>>,       \* the rateLimitInfo the pipeline will log
     lastInfo |-> <<>>,   \* the rateLimitInfo of the latest response of the pipeline
     caught |-> FALSE,    \* a request of the running pipeline failed and was caught
     batch |-> <<>>,      \* `samples` of the running pipeline
     err |-> "none",      \* the error being thrown
     ret |-> "none",      \* where refreshToken returns to
     refresh_token |-> 0, \* refreshToken: the refresh token read
     pair |-> 0,          \* refreshToken: the pair the provider answered with
     expires_at |-> 0,    \* store_tokens: Date.now() + expires_in, computed on entry
     accessToken |-> 0,   \* makeAPIRequest: the bearer token
     callGets |-> 0,      \* GETs issued for the current makeAPIRequest call
     failStatus |-> 0,    \* the response status that made the current call fail: 429, or
                          \* 500 for any other failure than 401 (0: none)
     rateLimited |-> Null,\* the figures the 429 error of the current call reports
     args |-> <<>>,       \* syncDateRange: <<startDate, endDate>> as given
     got401 |-> 0,        \* 401 answers received by the invocation so far
     status |-> Null,     \* the rate_limit_remaining the pre-flight check read
     gets |-> 0,          \* outbound GETs issued by the invocation so far
     posts |-> 0,         \* token-refresh POSTs issued by the invocation so far
     wrote |-> <<>>]      \* the ledger entries appended by the invocation so far

Type(r) == TypeOrder[r.typeIdx]
DateStr(r) == r.dates[r.dateIdx]
Reqs(r) == Requests(Type(r), scopes)

\* shouldSyncX && this.scopes.includes(X)  (the scope is not tested for `other`)
Selected(r, k) ==
    /\ (r.types = Null \/ TypeOrder[k] \in r.types[1])
    /\ (TypeOrder[k] = "other" \/ TypeOrder[k] \in scopes)

\* the first selected pipeline after position k, 0 when there is none
NextType(r, k) ==
    IF \E j \in (k + 1)..Len(TypeOrder) : Selected(r, j)
    THEN CHOOSE j \in (k + 1)..Len(TypeOrder) :
            Selected(r, j) /\ \A m \in (k + 1)..(j - 1) : ~Selected(r, m)
    ELSE 0

\* entry of a sync<Type>Data pipeline at position k
EnterPipeline(r, k, clock) ==
    LET r1 == [r EXCEPT !.typeIdx = k, !.reqIdx = 1, !.pipeNow = clock,
                        !.info = <<>>, !.lastInfo = <<>>, !.caught = FALSE,
                        !.batch = <<>>, !.callGets = 0,
                        !.failStatus = 0, !.rateLimited = Null]
    IN IF Requests(TypeOrder[k], scopes) = <<>>
       THEN [r1 EXCEPT !.pc = "log_success"]
       ELSE [r1 EXCEPT !.pc = "token"]

\* after the pipeline at position k returned: the next selected pipeline of the day,
\* or the end of the day
AfterPipeline(r, k, clock) ==
    IF NextType(r, k) # 0
    THEN EnterPipeline(r, NextType(r, k), clock)
    ELSE IF r.kind = "range"
         THEN [r EXCEPT !.pc = "pause"]
         ELSE [r EXCEPT !.pc = "resolved"]

\* makeAPIRequest has returned or thrown: its locals are gone (callGets keeps the
\* count of the call until the next call starts)
Returned(r) ==
    [r EXCEPT !.accessToken = 0, !.refresh_token = 0, !.pair = 0, !.ret = "none"]

\* after a request of the pipeline ended (with a response, or with an error that the
\* `other` pipeline swallowed): the next request, or the store / log stage
AfterRequest(r) ==
    LET left == Returned(r) IN
    IF r.reqIdx < Len(Reqs(r))
    THEN [left EXCEPT !.reqIdx = @ + 1, !.pc = "token", !.callGets = 0,
                      !.failStatus = 0, !.rateLimited = Null]
    ELSE IF r.batch # <<>>
         THEN [left EXCEPT !.pc = "store"]
         ELSE [left EXCEPT !.pc = "log_success"]

\* an error thrown out of makeAPIRequest: the `other` pipeline catches it around each
\* request and goes on; the other pipelines log it and rethrow
Throw(r, e) ==
    IF Type(r) = "other"
    THEN AfterRequest([r EXCEPT !.caught = TRUE])
    ELSE [Returned(r) EXCEPT !.pc = "log_error", !.err = e]

(***************************************************************************)
(* The actions of an invocation i: one action per suspension point          *)
(***************************************************************************)
\* the sampleTypes arguments tried with syncAllData: none, and four subsets that
\* between them select every pipeline, first and after another one
TypeChoices ==
    {Null, Some({"heartrate"}), Some({"activity", "sleep"}), Some({"sleep", "other"}),
     Some({"other"})}

\* the sampleTypes arguments tried with syncDateRange: one pipeline a day, and two
\* pipelines a day that can issue more than four requests
RangeTypeChoices == {Some({"heartrate"}), Some({"activity", "other"})}

\* syncAllData(dateStr, sampleTypes) is called
syncAllData(i, dateStr, sampleTypes) ==
    /\ inv[i].pc = "idle"
    /\ inv' = [inv EXCEPT ![i] = [IdleInv EXCEPT !.pc = "preflight", !.kind = "all",
                                                !.dates = <<dateStr>>, !.dateIdx = 1,
                                                !.types = sampleTypes]]
    /\ UNCHANGED <<now, issued, scopes, localDayShift, dbVars, pureVars>>

\* the scheduler or POST /sync/trigger calls syncAllData
StartSyncAll(i) ==
    \E dateStr \in {Null, Some(Today)}, sampleTypes \in TypeChoices :
        syncAllData(i, dateStr, sampleTypes)

\* syncDateRange(startDate, endDate, sampleTypes) is called: getDateRange runs before
\* the try block, so its error leaves the function at once
StartSyncRange(i) ==
    /\ inv[i].pc = "idle"
    /\ \E startDate \in {Today, Today + 1}, sampleTypes \in RangeTypeChoices :
       \E endDate \in Today..(Today + MaxRangeDays - 1) \cup {startDate + maxDays} :
          LET dates == getDateRange(startDate, endDate) IN
          IF dates = Null
          THEN inv' = [inv EXCEPT ![i] = [IdleInv EXCEPT !.pc = "rejected", !.kind = "range",
                                                         !.types = sampleTypes,
                                                         !.args = <<startDate, endDate>>,
                                                         !.err = "ValidationError"]]
          ELSE inv' = [inv EXCEPT ![i] = [IdleInv EXCEPT !.pc = "preflight", !.kind = "range",
                                                         !.dates = [k \in 1..Len(dates[1]) |-> Some(dates[1][k])],
                                                         !.dateIdx = 1,
                                                         !.args = <<startDate, endDate>>,
                                                         !.types = sampleTypes]]
    /\ UNCHANGED <<now, issued, scopes, localDayShift, dbVars, pureVars>>

\* the minimum the pre-flight check asks for
Minimum(r) == IF r.kind = "all" THEN SyncAllMinimum ELSE Len(r.dates) * RequestsPerDate

\* the pre-flight check: get_rate_limit_status() resolves
Preflight(i) ==
    /\ inv[i].pc = "preflight"
    /\ \E rateLimitStatus \in get_rate_limit_status(sync_log, now) :
       LET r == inv[i]
           seen == [r EXCEPT !.status = Some(rateLimitStatus.rate_limit_remaining)]
       IN IF rateLimitStatus.rate_limit_remaining < Minimum(r)
          THEN inv' = [inv EXCEPT ![i] = [seen EXCEPT !.pc = "rejected", !.err = "RateLimitTooLow"]]
          ELSE IF NextType(r, 0) # 0
               THEN inv' = [inv EXCEPT ![i] = EnterPipeline(seen, NextType(r, 0), now)]
               ELSE inv' = [inv EXCEPT ![i] = AfterPipeline(seen, Len(TypeOrder), now)]
    /\ UNCHANGED <<now, issued, scopes, localDayShift, dbVars, pureVars>>

\* ensureValidToken(): get_tokens() resolves
EnsureValidToken(i) ==
    /\ inv[i].pc = "token"
    /\ \E t \in get_tokens(tokens) :
       LET r == inv[i]
       IN IF t = Null
          THEN inv' = [inv EXCEPT ![i] = Throw(r, "NoTokens")]
          ELSE IF (t[1].expires_at - now) < RefreshWindow
               THEN inv' = [inv EXCEPT ![i] = [r EXCEPT !.pc = "rt_read", !.ret = "get"]]
               ELSE inv' = [inv EXCEPT ![i] = [r EXCEPT !.pc = "get",
                                                        !.accessToken = t[1].access_token]]
    /\ UNCHANGED <<now, issued, scopes, localDayShift, dbVars, pureVars>>

\* refreshToken(): get_tokens() resolves
RefreshRead(i) ==
    /\ inv[i].pc = "rt_read"
    /\ \E t \in get_tokens(tokens) :
       LET r == inv[i]
       IN IF t = Null
          THEN inv' = [inv EXCEPT ![i] = Throw(r, "NoRefreshToken")]
          ELSE inv' = [inv EXCEPT ![i] = [r EXCEPT !.pc = "rt_post",
                                                   !.refresh_token = t[1].refresh_token]]
    /\ UNCHANGED <<now, issued, scopes, localDayShift, dbVars, pureVars>>

\* refreshToken(): the POST to /oauth2/token is answered with a new pair and
\* store_tokens is entered
RefreshPostOk(i) ==
    /\ inv[i].pc = "rt_post"
    /\ issued < MaxIssued
    /\ issued' = issued + 1
    /\ inv' = [inv EXCEPT ![i] = [@ EXCEPT !.pc = "rt_delete", !.pair = issued + 1,
                                           !.expires_at = now + TokenTtl,
                                           !.posts = @ + 1]]
    /\ UNCHANGED <<now, scopes, localDayShift, dbVars, pureVars>>

\* a refresh that drops the stored credential when the exchange fails
RefreshPostFailClear(i) ==
    /\ inv[i].pc = "rt_post"
    /\ tokens' = <<>>
    /\ inv' = [inv EXCEPT ![i] =
                  Throw([@ EXCEPT !.posts = @ + 1],
                        "TokenRefreshFailed")]
    /\ UNCHANGED <<now, issued, scopes, localDayShift, samples_table, sync_log, pureVars>>

\* refreshToken(): the POST fails; the error is logged and rethrown
RefreshPostFail(i) ==
    /\ inv[i].pc = "rt_post"
    /\ inv' = [inv EXCEPT ![i] =
                  Throw([@ EXCEPT !.posts = @ + 1],
                        "TokenRefreshFailed")]
    /\ UNCHANGED <<now, issued, scopes, localDayShift, dbVars, pureVars>>

\* store_tokens: DELETE FROM tokens resolves
StoreTokensDelete(i) ==
    /\ inv[i].pc = "rt_delete"
    /\ tokens' = <<>>
    /\ inv' = [inv EXCEPT ![i] = [@ EXCEPT !.pc = "rt_insert"]]
    /\ UNCHANGED <<now, issued, scopes, localDayShift, samples_table, sync_log, pureVars>>

\* store_tokens: INSERT INTO tokens resolves; refreshToken returns the new access
\* token, to ensureValidToken (ret = "get") or to the 401 handler, which calls
\* makeAPIRequest again (ret = "token")
StoreTokensInsert(i) ==
    /\ inv[i].pc = "rt_insert"
    /\ tokens' = Append(tokens, TokenRow(inv[i].pair, inv[i].pair, inv[i].expires_at, now))
    /\ inv' = [inv EXCEPT ![i] = [@ EXCEPT !.pc = inv[i].ret, !.accessToken = inv[i].pair,
                                           !.refresh_token = 0, !.pair = 0,
                                           !.expires_at = 0, !.ret = "none"]]
    /\ UNCHANGED <<now, issued, scopes, localDayShift, samples_table, sync_log, pureVars>>

\* the invocation with one more outbound GET on its record
Got(r) == [r EXCEPT !.callGets = @ + 1, !.gets = @ + 1]

\* axios.get is answered 200 with these rate-limit headers: they are extracted and
\* the pipeline takes the samples of the document; the first response of the
\* pipeline is the one whose rateLimitInfo is logged
GetOkWith(i, headers) ==
    /\ inv[i].pc = "get"
    /\ LET r == Got(inv[i])
           rateLimitInfo == extractRateLimitInfo(headers.remaining, headers.reset, now)
           date == PipelineDate(Type(r), DateStr(r))
           r1 == [r EXCEPT !.batch = @ \o EndpointSamples(Reqs(r)[r.reqIdx], date),
                           !.info = IF r.reqIdx = 1 /\ Type(r) # "other"
                                    THEN rateLimitInfo ELSE @,
                           !.lastInfo = rateLimitInfo]
       IN inv' = [inv EXCEPT ![i] = AfterRequest(r1)]
    /\ UNCHANGED <<now, issued, scopes, localDayShift, dbVars, pureVars>>

\* axios.get is answered 200
GetOk(i) == \E headers \in ResponseHeaders : GetOkWith(i, headers)

\* axios.get is answered 401: refreshToken(), then makeAPIRequest calls itself
Get401(i) ==
    /\ inv[i].pc = "get"
    /\ inv[i].got401 < Max401
    /\ inv' = [inv EXCEPT ![i] = [Got(@) EXCEPT !.got401 = @ + 1, !.pc = "rt_read",
                                                !.ret = "token"]]
    /\ UNCHANGED <<now, issued, scopes, localDayShift, dbVars, pureVars>>

\* the figures of the error thrown on a 429 answer with these headers
RateLimitError(remainingHeader, resetHeader) ==
    [used |-> DefaultRemaining - HeaderOr(remainingHeader, 0),
     remaining |-> HeaderOr(remainingHeader, 0),
     resetIn |-> HeaderOr(resetHeader, 0)]

\* a 429 handler that refreshes the token and retries the request
Get429Retry(i) ==
    /\ inv[i].pc = "get"
    /\ \E headers \in ResponseHeaders :
          inv' = [inv EXCEPT ![i] =
                     [Got(@) EXCEPT !.failStatus = 429, !.pc = "rt_read", !.ret = "token",
                                    !.rateLimited = Some(RateLimitError(headers.remaining,
                                                                         headers.reset))]]
    /\ UNCHANGED <<now, issued, scopes, localDayShift, dbVars, pureVars>>

\* axios.get is answered 429 with these headers: 'Rate limit exceeded. Used ..
\* requests. .. remaining. Resets in .. seconds' is thrown
Get429With(i, headers) ==
    /\ inv[i].pc = "get"
    /\ inv' = [inv EXCEPT ![i] =
                  Throw([Got(@) EXCEPT !.failStatus = 429,
                                       !.rateLimited = Some(RateLimitError(headers.remaining,
                                                                            headers.reset))],
                        "RateLimited")]
    /\ UNCHANGED <<now, issued, scopes, localDayShift, dbVars, pureVars>>

\* axios.get is answered 429
Get429(i) == \E headers \in ResponseHeaders : Get429With(i, headers)

\* axios.get fails in any other way (another status, no response): the error is
\* rethrown
GetFail(i) ==
    /\ inv[i].pc = "get"
    /\ inv' = [inv EXCEPT ![i] = Throw([Got(@) EXCEPT !.failStatus = 500],
                                      "UpstreamRequestFailed")]
    /\ UNCHANGED <<now, issued, scopes, localDayShift, dbVars, pureVars>>

\* sample_repository.store_samples(samples) commits
StoreSamples(i) ==
    /\ inv[i].pc = "store"
    /\ samples_table' = store_samples(samples_table, inv[i].batch).table
    /\ inv' = [inv EXCEPT ![i] = [@ EXCEPT !.pc = "log_success"]]
    /\ UNCHANGED <<now, issued, scopes, localDayShift, tokens, sync_log, pureVars>>

\* update_sync_log(type, now, 'success', rateLimitInfo) resolves; the pipeline returns
LogSuccess(i) ==
    /\ inv[i].pc = "log_success"
    /\ LET r == inv[i] IN
       /\ sync_log' = update_sync_log(sync_log, LogType(Type(r)), r.pipeNow, "success",
                                      r.info, Null, now)
       /\ inv' = [inv EXCEPT ![i] =
                     AfterPipeline([r EXCEPT !.wrote = Append(@, <<Type(r), "success">>),
                                            !.lastInfo = <<>>, !.caught = FALSE],
                                   r.typeIdx, now)]
    /\ UNCHANGED <<now, issued, scopes, localDayShift, tokens, samples_table, pureVars>>

\* a catch block that logs the error and lets the invocation go on with the next
\* pipeline (the error is not rethrown)
LogErrorContinue(i) ==
    /\ inv[i].pc = "log_error"
    /\ LET r == inv[i] IN
       /\ sync_log' = update_sync_log(sync_log, LogType(Type(r)), r.pipeNow, "error",
                                      <<>>, Some(r.err), now)
       /\ inv' = [inv EXCEPT ![i] =
                     AfterPipeline([r EXCEPT !.wrote = Append(@, <<Type(r), "error">>),
                                            !.lastInfo = <<>>],
                                   r.typeIdx, now)]
    /\ UNCHANGED <<now, issued, scopes, localDayShift, tokens, samples_table, pureVars>>

\* a catch block that rolls the samples of the invocation back before it logs the error
LogErrorRollback(i) ==
    /\ inv[i].pc = "log_error"
    /\ LET r == inv[i] IN
       /\ sync_log' = update_sync_log(sync_log, LogType(Type(r)), r.pipeNow, "error",
                                      <<>>, Some(r.err), now)
       /\ inv' = [inv EXCEPT ![i] = [r EXCEPT !.pc = "rejected", !.lastInfo = <<>>,
                                              !.wrote = Append(@, <<Type(r), "error">>)]]
    /\ samples_table' = <<>>
    /\ UNCHANGED <<now, issued, scopes, localDayShift, tokens, pureVars>>

\* the catch block of a pipeline: update_sync_log(type, now, 'error', {}, message)
\* resolves and the error is rethrown, through syncAllData / syncDateRange, to the caller
LogError(i) ==
    /\ inv[i].pc = "log_error"
    /\ LET r == inv[i] IN
       /\ sync_log' = update_sync_log(sync_log, LogType(Type(r)), r.pipeNow, "error",
                                      <<>>, Some(r.err), now)
       /\ inv' = [inv EXCEPT ![i] = [r EXCEPT !.pc = "rejected", !.lastInfo = <<>>,
                                              !.wrote = Append(@, <<Type(r), "error">>)]]
    /\ UNCHANGED <<now, issued, scopes, localDayShift, tokens, samples_table, pureVars>>

\* syncDateRange: the 100 ms pause after a day elapses; the next day, or the return
Pause(i) ==
    /\ inv[i].pc = "pause"
    /\ LET r == inv[i] IN
       IF r.dateIdx < Len(r.dates)
       THEN LET r1 == [r EXCEPT !.dateIdx = @ + 1] IN
            IF NextType(r1, 0) # 0
            THEN inv' = [inv EXCEPT ![i] = EnterPipeline(r1, NextType(r1, 0), now)]
            ELSE inv' = [inv EXCEPT ![i] = [r1 EXCEPT !.pc = "pause"]]
       ELSE inv' = [inv EXCEPT ![i] = [r EXCEPT !.pc = "resolved"]]
    /\ UNCHANGED <<now, issued, scopes, localDayShift, dbVars, pureVars>>

\* time passes (an invocation runs within one tick of the clock)
Tick ==
    /\ now < MaxClock
    /\ \A i \in Invs : inv[i].pc \in {"idle", "resolved", "rejected"}
    /\ now' = now + 1
    /\ UNCHANGED <<issued, scopes, localDayShift, inv, dbVars, pureVars>>

Step(i) ==
    \/ StartSyncAll(i) \/ StartSyncRange(i) \/ Preflight(i)
    \/ EnsureValidToken(i) \/ RefreshRead(i) \/ RefreshPostOk(i) \/ RefreshPostFail(i)
    \/ StoreTokensDelete(i) \/ StoreTokensInsert(i)
    \/ GetOk(i) \/ Get401(i) \/ Get429(i) \/ GetFail(i)
    \/ StoreSamples(i) \/ LogSuccess(i) \/ LogError(i) \/ Pause(i)

\* the initial credential: none (the OAuth flow was never completed), one that has
\* expired, one that expires in exactly one hour, or one that lasts
InitialTokens ==
    {<<>>} \cup {<<TokenRow(0, 0, ttl, 0)>> : ttl \in {0, RefreshWindow, TokenTtl}}

\* the ledger left by earlier runs: empty, or ending with the success entry that a
\* heart-rate pipeline run at time 0 wrote from its response
PriorLogs ==
    {<<>>} \cup
    {update_sync_log(<<>>, "heartrate", 0, "success",
                     extractRateLimitInfo(h.remaining, h.reset, 0), Null, 0) :
        h \in {[remaining |-> Some(5), reset |-> Some(2)],
                [remaining |-> Some(150), reset |-> Some(2)]}}

SyncInit ==
    /\ now = 0
    /\ tokens \in InitialTokens
    /\ issued = 0
    /\ samples_table = <<>>
    /\ sync_log \in PriorLogs
    /\ scopes \in {DefaultScopes, DefaultScopes \cup OptionalScopes}
    /\ localDayShift \in {0, 1}
    /\ inv = [i \in Invs |-> IdleInv]

\* nothing of the service runs
SyncIdle ==
    /\ now = 0
    /\ tokens = <<>>
    /\ issued = 0
    /\ samples_table = <<>>
    /\ sync_log = <<>>
    /\ scopes = DefaultScopes
    /\ localDayShift = 0
    /\ inv = [i \in Invs |-> IdleInv]

StepsIdle ==
    /\ dataset = <<>>
    /\ stepSamples = <<>>
    /\ stepsPc = "idle"

\* store_samples is not called on its own
StoreIdle ==
    /\ storeBatch = <<>>
    /\ storeReturns = <<>>
    /\ tableBefore = <<>>

\* no segmentation step runs on its own
SegIdle ==
    /\ segKind = "none"
    /\ response = <<>>
    /\ segSamples = <<>>
    /\ segPc = "idle"

\* one invocation at a time, any upstream behaviour, time passing
InitSync == SyncInit /\ StepsIdle /\ StoreIdle /\ SegIdle
NextSync == Step(1) \/ Tick
SpecSync == InitSync /\ [][NextSync]_vars

(***************************************************************************)
(* Claims about the API client and the orchestrator                        *)
(***************************************************************************)

\* C2: one makeAPIRequest call issues at most two outbound GETs (the first one and a
\* single retry after a 401).
C2_AtMostTwoGetsPerCall == \A i \in Invs : inv[i].callGets <= 2

\* the minimum of the pre-flight check as the specification states it: 10 for a
\* single-day sync, 4 requests a day for a range
StatedMinimum(r) == IF r.kind = "all" THEN 10 ELSE 4 * Len(r.dates)

\* C3: an invocation whose pre-flight check read a remaining budget below the minimum
\* has failed with RateLimitTooLow and has issued no outbound request, neither an API
\* GET nor a token-refresh POST.
C3_PreflightAbort ==
    \A i \in Invs :
        (inv[i].status # Null /\ inv[i].status[1] < StatedMinimum(inv[i])) =>
            /\ inv[i].pc = "rejected"
            /\ inv[i].err = "RateLimitTooLow"
            /\ inv[i].gets = 0
            /\ inv[i].posts = 0

\* a date range of two days was refused by the pre-flight check
C3_Witness ==
    /\ inv[1].pc = "rejected"
    /\ inv[1].err = "RateLimitTooLow"
    /\ inv[1].kind = "range"
    /\ inv[1].status = Some(5)

Last(q) == q[Len(q)]

\* C4: in syncAllData, when a pipeline has failed, the next thing the invocation does
\* is append the error entry of exactly that type and reject; from then on it issues
\* no request and writes no ledger entry.
C4_ShortCircuit ==
    [][\A i \in Invs :
         inv[i].kind = "all" =>
           /\ inv[i].pc = "log_error" =>
                 /\ inv'[i].pc = "rejected"
                 /\ Len(sync_log') = Len(sync_log) + 1
                 /\ SubSeq(sync_log', 1, Len(sync_log)) = sync_log
                 /\ Last(sync_log').data_type = LogType(Type(inv[i]))
                 /\ Last(sync_log').status = "error"
                 /\ inv'[i].gets = inv[i].gets
                 /\ inv'[i].posts = inv[i].posts
           /\ inv[i].pc = "rejected" =>
                 /\ inv'[i] = inv[i]
                 /\ sync_log' = sync_log]_vars

\* the heart-rate pipeline failed after the activity pipeline had succeeded, with the
\* sleep and other pipelines still to come
C4_Witness ==
    /\ inv[1].kind = "all"
    /\ inv[1].pc = "rejected"
    /\ inv[1].types = Null
    /\ inv[1].wrote = << <<"activity", "success">>, <<"heartrate", "error">> >>

\* C5: an invocation that has rejected has appended at least one error entry.
C5_RejectionIsLogged ==
    \A i \in Invs :
        inv[i].pc = "rejected" =>
            \E k \in 1..Len(inv[i].wrote) : inv[i].wrote[k][2] = "error"

\* C6: when the latest row with a rate-limit snapshot was written from a response
\* reporting remaining r and reset-in s > 0, get_rate_limit_status returns (150, 0)
\* from the instant (write time + s) on, and remaining r before it.
C6_SelfHealingRead ==
    HasRateRow(sync_log) =>
        LET row == LatestRateRow(sync_log)
            s == row.info.resetIn
        IN s > 0 =>
             \A result \in get_rate_limit_status(sync_log, now) :
                 IF now >= row.created_at + s
                 THEN result = [rate_limit_remaining |-> 150, rate_limit_reset |-> 0]
                 ELSE result.rate_limit_remaining = row.info.remaining

\* C15: a 429 response, and any failure other than a 401, makes makeAPIRequest fail at
\* once: no further GET and no token refresh is issued for that call, and the 429
\* failure reports used, remaining and reset-in-seconds as the response gave them.
C15_FailsWithoutRetry ==
    /\ [](\A i \in Invs :
            inv[i].failStatus = 429 =>
                \E h \in ResponseHeaders :
                    inv[i].rateLimited =
                        Some([used |-> 150 - (IF h.remaining = Null THEN 0 ELSE h.remaining[1]),
                              remaining |-> IF h.remaining = Null THEN 0 ELSE h.remaining[1],
                              resetIn |-> IF h.reset = Null THEN 0 ELSE h.reset[1]]))
    /\ [][\A i \in Invs :
            inv[i].failStatus \in {429, 500} =>
                /\ inv'[i].gets = inv[i].gets
                /\ inv'[i].posts = inv[i].posts]_vars

\* a call failed on a 429 that reported 5 requests remaining, and the invocation
\* rejected
C15_Witness ==
    /\ inv[1].pc = "rejected"
    /\ inv[1].failStatus = 429
    /\ inv[1].rateLimited # Null
    /\ inv[1].rateLimited[1].remaining = 5

\* C16: syncDateRange(start, end) fails with a validation error, before reading the
\* ledger and before any outbound request, exactly when start > end or the inclusive
\* number of days exceeds 30; an invocation that returns has processed exactly the
\* days start..end in ascending order.
C16_RangeValidatedAndProcessed ==
    \A i \in Invs :
        inv[i].kind = "range" =>
            LET start == inv[i].args[1]
                end == inv[i].args[2]
                refused == inv[i].pc = "rejected" /\ inv[i].err = "ValidationError"
            IN /\ refused <=> (start > end \/ end - start + 1 > 30)
               /\ refused => (inv[i].status = Null /\ inv[i].gets = 0 /\ inv[i].posts = 0)
               /\ inv[i].pc = "resolved" =>
                     inv[i].dates = [k \in 1..(end - start + 1) |-> Some(start + k - 1)]

\* the table holds a row for every sample of the batch
Stored(table, batch) ==
    \A k \in 1..Len(batch) : \E j \in 1..Len(table) : table[j] = SampleRow(batch[k])

\* C17: when a later pipeline of a syncAllData invocation fails, every sample row and
\* every success entry written by the earlier pipelines of the invocation is still
\* there, unmodified, after the invocation rejected.
C17_EarlierWritesKept ==
    \A i \in Invs :
        (inv[i].kind = "all" /\ inv[i].pc = "rejected" /\ Len(inv[i].wrote) >= 2) =>
            LET r == inv[i]
                n == Len(r.wrote)
                before == Len(sync_log) - n
            IN /\ before >= 0
               /\ \A k \in 1..(n - 1) :
                     LET type == r.wrote[k][1]
                         row == sync_log[before + k]
                     IN /\ r.wrote[k][2] = "success"
                        /\ row.data_type = LogType(type)
                        /\ row.status = "success"
                        /\ row.error_message = Null
                        /\ Stored(samples_table,
                                  PipelineBatch(type, PipelineDate(type, r.dates[1]), scopes))

\* the activity pipeline stored its samples and logged its success, then the sleep
\* pipeline failed
C17_Witness ==
    /\ inv[1].kind = "all" /\ inv[1].pc = "rejected"
    /\ inv[1].wrote = << <<"activity", "success">>, <<"sleep", "error">> >>
    /\ Len(samples_table) = 2

IsPrefix(a, b) == Len(a) <= Len(b) /\ SubSeq(b, 1, Len(a)) = a

\* C18: across any sequence of sync, sync_range, refresh and rate_limit_status
\* operations the sync_log only grows by appending, and the samples table never loses
\* a row.
C18_AppendOnly ==
    [][IsPrefix(sync_log, sync_log') /\ IsPrefix(samples_table, samples_table')]_vars

\* an invocation over two days returned after writing two entries to a ledger that
\* already held one
C18_Witness ==
    /\ inv[1].kind = "range" /\ inv[1].pc = "resolved"
    /\ Len(inv[1].wrote) = 2
    /\ Len(sync_log) = 3
    /\ Len(samples_table) >= 2

\* C21: ensureValidToken() goes into refreshToken() exactly when the stored
\* expires_at is less than one hour after now; when it does not, it returns the
\* stored access token and no request goes to the provider; when it does, the
\* access token it returns is the one the provider has just issued.
C21_RefreshIffExpiringSoon ==
    [][\A i \in Invs :
          /\ (inv[i].pc = "token" /\ tokens # <<>>) =>
                LET stored == tokens[Len(tokens)] IN
                IF stored.expires_at - now < 1
                THEN inv'[i].pc = "rt_read" /\ inv'[i].ret = "get"
                ELSE /\ inv'[i].pc = "get"
                     /\ inv'[i].accessToken = stored.access_token
                     /\ inv'[i].posts = inv[i].posts
                     /\ inv'[i].gets = inv[i].gets
                     /\ issued' = issued
          /\ (inv[i].pc = "rt_insert" /\ inv[i].ret = "get") =>
                /\ inv'[i].pc = "get"
                /\ inv'[i].accessToken = issued
                /\ tokens'[Len(tokens')].access_token = issued]_vars

\* the refresh that ensureValidToken asked for has returned the pair just issued
C21_Witness ==
    /\ inv[1].pc = "get" /\ inv[1].posts = 1 /\ inv[1].got401 = 0
    /\ inv[1].accessToken = issued /\ issued = 1

\* C23: a low rate-limit snapshot does not block syncing for ever: when the latest
\* snapshot was written from a response reporting reset-in s > 0, a single-day
\* invocation whose pre-flight check runs at the instant (write time + s) or later
\* passes the check (failed checks write no snapshot, so the latest snapshot is
\* still the low one).
C23_LowSnapshotExpires ==
    [][\A i \in Invs :
          (/\ inv[i].pc = "preflight" /\ inv[i].kind = "all" /\ inv'[i] # inv[i]
           /\ HasRateRow(sync_log)
           /\ LatestRateRow(sync_log).info.resetIn > 0
           /\ now >= LatestRateRow(sync_log).created_at
                        + LatestRateRow(sync_log).info.resetIn) =>
             /\ inv'[i].pc # "rejected"
             /\ sync_log' = sync_log]_vars

\* C25: the success entry of a pipeline carries the rate-limit values (remaining,
\* reset-in) of the latest response the pipeline received in that run, for every
\* data type.
C25_LogsLatestResponse ==
    [][\A i \in Invs :
          (/\ inv[i].pc = "log_success" /\ inv'[i] # inv[i]
           /\ Prop(inv[i].lastInfo, "remaining") # Null) =>
             /\ Last(sync_log').status = "success"
             /\ Prop(Last(sync_log').info, "remaining") = Prop(inv[i].lastInfo, "remaining")
             /\ Prop(Last(sync_log').info, "resetIn") = Prop(inv[i].lastInfo, "resetIn")]_vars

\* C28: a pipeline writes its success entry only when every request it made has
\* succeeded; a pipeline one of whose requests failed writes an error entry and the
\* invocation rejects.  This holds for the four data types, `other` included.
C28_SuccessMeansAllRequestsSucceeded ==
    \A i \in Invs :
        /\ inv[i].pc = "log_success" => ~inv[i].caught
        /\ inv[i].caught => inv[i].pc \in {"log_error", "rejected"}

\* C27: an invocation that has passed the pre-flight check never issues more API
\* GETs than the minimum the check asked for (10 for a single day, 4 a day for a
\* range), every request of every selected pipeline and every retry counted.
C27_RequestsWithinMinimum ==
    \A i \in Invs :
        (inv[i].status # Null /\ inv[i].status[1] >= StatedMinimum(inv[i])) =>
            inv[i].gets <= StatedMinimum(inv[i])

\* C29: with no credential row stored, an invocation that has passed the pre-flight
\* check issues no GET, writes no success entry and at most one entry at all, and
\* ends rejected with exactly one error entry, that of its first selected data
\* type, whichever subset of the types was asked for.
C29_NoCredentialFailsFirstType ==
    \A i \in Invs :
        (/\ tokens = <<>> /\ issued = 0
         /\ inv[i].status # Null /\ inv[i].err # "RateLimitTooLow") =>
            /\ inv[i].gets = 0
            /\ Len(inv[i].wrote) <= 1
            /\ \A k \in 1..Len(inv[i].wrote) :
                  inv[i].wrote[k] = <<TypeOrder[NextType(inv[i], 0)], "error">>
            /\ inv[i].pc # "resolved"
            /\ inv[i].pc = "rejected" => Len(inv[i].wrote) = 1

\* C30: in syncDateRange, when a pipeline has failed on a date, the invocation writes
\* the error entry of that pipeline and rejects: it issues no further request, starts
\* no later pipeline and no later date, writes no further ledger entry, and the
\* samples and ledger entries written before stay as they are.
C30_RangeStopsAtFailedDate ==
    [][\A i \in Invs :
          inv[i].kind = "range" =>
            /\ (inv[i].pc = "log_error" /\ inv'[i] # inv[i]) =>
                  /\ inv'[i].pc = "rejected"
                  /\ inv'[i].dateIdx = inv[i].dateIdx
                  /\ inv'[i].typeIdx = inv[i].typeIdx
                  /\ inv'[i].gets = inv[i].gets
                  /\ inv'[i].posts = inv[i].posts
                  /\ samples_table' = samples_table
                  /\ Len(sync_log') = Len(sync_log) + 1
                  /\ IsPrefix(sync_log, sync_log')
                  /\ Last(sync_log').status = "error"
                  /\ Last(sync_log').data_type = LogType(TypeOrder[inv[i].typeIdx])
            /\ inv[i].pc = "rejected" =>
                  /\ inv'[i] = inv[i]
                  /\ sync_log' = sync_log
                  /\ samples_table' = samples_table]_vars

\* a range of two days was abandoned on its first day, the second day untouched
C30_Witness ==
    /\ inv[1].kind = "range" /\ inv[1].pc = "rejected"
    /\ Len(inv[1].dates) = 2 /\ inv[1].dateIdx = 1
    /\ inv[1].gets >= 1
    /\ inv[1].wrote = <<<<"activity", "error">>>>
    /\ Last(sync_log).status = "error"

\* the data types in the order the specification states
StatedOrder == <<"activity", "heartrate", "sleep", "other">>

\* the data types an invocation was asked for and holds the scope of, in that order
AskedTypes(r) ==
    SelectSeq(StatedOrder,
              LAMBDA t : /\ (r.types = Null \/ t \in r.types[1])
                         /\ (t = "other" \/ t \in scopes))

\* a pipeline of the invocation is running (a request of it may be in flight)
InPipeline(r) ==
    r.pc \in {"token", "get", "rt_read", "rt_post", "rt_delete", "rt_insert", "store",
              "log_success", "log_error"}

\* C31: an invocation works strictly in sequence.  While a pipeline runs, the ledger
\* entries the invocation has appended are the success entries of all the selected
\* types of the earlier dates and of the earlier types of the current date, in the
\* order activity, heartrate, sleep, other, date after date; the running pipeline is
\* the next one in that order, so the entry of a type is appended before the first
\* request of the next type; and a step of the invocation issues at most one
\* outbound request.
C31_StrictlySequential ==
    [][\A i \in Invs :
          /\ InPipeline(inv'[i]) =>
                LET r == inv'[i]
                    asked == AskedTypes(r)
                    n == Len(asked)
                    done == Len(r.wrote)
                IN /\ n > 0
                   /\ \A k \in 1..done :
                         r.wrote[k] = <<asked[((k - 1) % n) + 1], "success">>
                   /\ r.dateIdx = (done \div n) + 1
                   /\ Type(r) = asked[(done % n) + 1]
          /\ (inv'[i].gets - inv[i].gets) + (inv'[i].posts - inv[i].posts) \in {0, 1}
          /\ inv'[i].gets > inv[i].gets => inv[i].pc = "get"
          /\ inv'[i].posts > inv[i].posts => inv[i].pc = "rt_post"]_vars

\* on the second day of a range the last pipeline has a request in flight, the
\* entries of the first day and of the earlier type of the second day written
C31_Witness ==
    /\ inv[1].kind = "range" /\ inv[1].dateIdx = 2 /\ inv[1].pc = "get"
    /\ Type(inv[1]) = "other"
    /\ inv[1].wrote = << <<"activity", "success">>, <<"other", "success">>,
                         <<"activity", "success">> >>

(***************************************************************************)
(* Two invocations running concurrently (a scheduled and a manual trigger), *)
(* the upstream answering every GET with the document of the date           *)
(***************************************************************************)
InitRace ==
    /\ SyncInit /\ tokens # <<>> /\ sync_log = <<>> /\ scopes = DefaultScopes
    /\ localDayShift = 0
    /\ StepsIdle /\ StoreIdle /\ SegIdle

\* both triggers ask for today's data of the same pipeline
StartRace(i) ==
    \E sampleTypes \in {Some({"activity"}), Some({"heartrate"})} :
        syncAllData(i, Null, sampleTypes)

NextRace ==
    \E i \in Invs :
        \/ StartRace(i) \/ Preflight(i)
        \/ EnsureValidToken(i) \/ RefreshRead(i) \/ RefreshPostOk(i) \/ RefreshPostFail(i)
        \/ StoreTokensDelete(i) \/ StoreTokensInsert(i)
        \/ GetOk(i) \/ StoreSamples(i) \/ LogSuccess(i) \/ LogError(i)
SpecRace == InitRace /\ [][NextRace]_vars

\* refreshToken() was called by the invocation and has returned
Refreshed(r) ==
    r.posts = 1 /\ r.pc \notin {"rt_read", "rt_post", "rt_delete", "rt_insert"}

\* C34: for any interleaving of two concurrent refresh calls, once both have
\* completed the stored credential is the pair the provider issued in its later
\* exchange, so the stored refresh token is never one already superseded.
C34_LaterExchangeIsStored ==
    (/\ \A i \in Invs : Refreshed(inv[i])
     /\ issued = Cardinality(Invs)) =>
        \A t \in get_tokens(tokens) : t # Null /\ t[1].refresh_token = issued

(***************************************************************************)
(* store_samples called twice with the batch of a pipeline                 *)
(***************************************************************************)

\* the dates a pipeline can be asked for
PipelineDates == (Today - 1)..(Today + MaxRangeDays - 1)

\* the non-empty batches the pipelines hand to store_samples
PipelineBatches ==
    { PipelineBatch(TypeOrder[k], date, DefaultScopes \cup optional) :
        k \in 1..Len(TypeOrder), date \in PipelineDates, optional \in SUBSET OptionalScopes }
    \ {<<>>}

StoreInit ==
    /\ storeBatch \in PipelineBatches
    /\ samples_table \in {<<>>} \cup {store_samples(<<>>, b).table : b \in PipelineBatches}
    /\ storeReturns = <<>>
    /\ tableBefore = samples_table
    /\ now = 0 /\ tokens = <<>> /\ issued = 0 /\ sync_log = <<>>
    /\ scopes = DefaultScopes /\ localDayShift = 0 /\ inv = [i \in Invs |-> IdleInv]

\* await store_samples(storeBatch)
StoreCall ==
    /\ Len(storeReturns) < 2
    /\ LET result == store_samples(samples_table, storeBatch) IN
       /\ samples_table' = result.table
       /\ storeReturns' = Append(storeReturns, result.insert_count)
    /\ tableBefore' = samples_table
    /\ UNCHANGED <<storeBatch, stepsVars, segVars, now, issued, scopes, localDayShift, inv, tokens, sync_log>>

InitStore == StoreInit /\ StepsIdle /\ SegIdle
NextStore == StoreCall
SpecStore == InitStore /\ [][NextStore]_vars

(***************************************************************************)
(* Claims about the persistence ledger                                     *)
(***************************************************************************)

\* C1: storing the same pipeline batch a second time inserts nothing: the second
\* call returns 0 and leaves the samples table unchanged.
C1_SecondStoreInsertsNothing ==
    Len(storeReturns) = 2 => (storeReturns[2] = 0 /\ samples_table = tableBefore)

\* C22: refreshToken() finding no stored credential fails without a request to the
\* provider, and a refresh whose exchange at the token endpoint fails leaves the
\* stored credential as it was.
C22_FailedRefreshKeepsCredential ==
    [][\A i \in Invs :
          /\ (inv[i].pc = "rt_read" /\ inv'[i] # inv[i] /\ tokens = <<>>) =>
                /\ inv'[i].err = "NoRefreshToken"
                /\ inv'[i].pc \notin {"rt_post", "rt_delete", "rt_insert", "get"}
                /\ inv'[i].posts = inv[i].posts
                /\ inv'[i].gets = inv[i].gets
                /\ issued' = issued
          /\ (inv[i].pc = "rt_post" /\ inv'[i] # inv[i] /\ inv'[i].pc # "rt_delete") =>
                /\ inv'[i].err = "TokenRefreshFailed"
                /\ inv'[i].posts = inv[i].posts + 1
                /\ tokens' = tokens
                /\ issued' = issued]_vars

\* an invocation went into refreshToken() while a credential was stored and found
\* none, the other invocation's refresh having deleted it
C22_Witness ==
    \E i, j \in Invs :
        /\ inv[i].err = "NoRefreshToken" /\ inv[i].posts = 0 /\ inv[i].gets = 0
        /\ inv[j].posts = 1

\* C7: once an initial credential exists, the tokens table holds exactly one row in
\* every reachable state.
C7_ExactlyOneCredentialRow == Len(tokens) = 1

\* two rows carry the same Sample identity tuple (type, timestamp, start_time, end_time)
SameIdentity(a, b) ==
    /\ a.type = b.type
    /\ a.timestamp = b.timestamp
    /\ a.start_time = b.start_time
    /\ a.end_time = b.end_time

\* C8: when two concurrent invocations over the same date and the same sample types
\* have both returned, the samples table holds every identity tuple once.
C8_RaceStoresEachSampleOnce ==
    (/\ \A i \in Invs : inv[i].pc = "resolved"
     /\ inv[1].dates = inv[2].dates
     /\ inv[1].types = inv[2].types)
    => \A j, k \in 1..Len(samples_table) :
          SameIdentity(samples_table[j], samples_table[k]) => j = k

(***************************************************************************)
(* Invocations one after the other: POST /sync/trigger asks again and again *)
(* for today's heart-rate data, and time passes between the invocations     *)
(***************************************************************************)
MaxLedgerRows == 3    \* no invocation starts once the ledger has this many rows

\* the rate-limit headers of a response: missing, an exhausted budget, a budget below
\* the minimum of a single-day sync, a full budget
LedgerHeaders ==
    {[remaining |-> Null, reset |-> Null],
     [remaining |-> Some(0), reset |-> Some(2)],
     [remaining |-> Some(5), reset |-> Some(2)],
     [remaining |-> Some(DefaultRemaining), reset |-> Some(2)]}

\* the headers of a 429 answer: nothing remains until the reset, two hours away
RateLimitedHeaders == [remaining |-> Some(0), reset |-> Some(2)]

InitRepeat ==
    /\ SyncInit /\ tokens = <<TokenRow(0, 0, TokenTtl, 0)>> /\ sync_log = <<>>
    /\ scopes = DefaultScopes /\ localDayShift = 0
    /\ StepsIdle /\ StoreIdle /\ SegIdle

\* the route calls syncAllData(null, ['heartrate'])
StartRepeat(i) ==
    /\ Len(sync_log) < MaxLedgerRows
    /\ syncAllData(i, Null, Some({"heartrate"}))

\* the promise of the invocation has settled and the route has answered
Settle(i) ==
    /\ inv[i].pc \in {"resolved", "rejected"}
    /\ inv' = [inv EXCEPT ![i] = IdleInv]
    /\ UNCHANGED <<now, issued, scopes, localDayShift, dbVars, pureVars>>

NextRepeat ==
    \/ StartRepeat(1) \/ Preflight(1) \/ EnsureValidToken(1)
    \/ \E headers \in LedgerHeaders : GetOkWith(1, headers)
    \/ Get429With(1, RateLimitedHeaders)
    \/ StoreSamples(1) \/ LogSuccess(1) \/ LogError(1)
    \/ Settle(1) \/ Tick
SpecRepeat == InitRepeat /\ [][NextRepeat]_vars

\* C24: when the last ledger entry is the success entry of a pipeline whose response
\* reported remaining r, a pre-flight check made before that response's reset
\* instant reads exactly r, for r = 0 as for any other value, and therefore fails
\* when r is below 10.
C24_SnapshotReadBack ==
    [][(/\ inv[1].pc = "preflight" /\ inv'[1] # inv[1]
        /\ sync_log # <<>>
        /\ Last(sync_log).status = "success"
        /\ now < Last(sync_log).created_at + Last(sync_log).info.resetIn) =>
          /\ inv'[1].status = Some(Last(sync_log).info.remaining)
          /\ Last(sync_log).info.remaining < 10 =>
                inv'[1].pc = "rejected" /\ inv'[1].gets = 0]_vars

\* C26: after a request was answered 429, an invocation whose pre-flight check runs
\* before the reset instant the 429 answer announced fails that check and issues no
\* request.
C26_BlockedUntilReset ==
    [][(/\ inv[1].pc = "preflight" /\ inv'[1] # inv[1]
        /\ sync_log # <<>>
        /\ Last(sync_log).status = "error"
        /\ Last(sync_log).error_message = Some("RateLimited")
        /\ now < Last(sync_log).created_at + RateLimitedHeaders.reset[1]) =>
          /\ inv'[1].pc = "rejected"
          /\ inv'[1].err = "RateLimitTooLow"
          /\ inv'[1].gets = 0]_vars

(***************************************************************************)
(* Invocations one after the other while the clock runs                    *)
(***************************************************************************)
\* time passes, also while an invocation waits for a response or for the database:
\* one tick is the second that CURRENT_TIMESTAMP resolves to
Elapse ==
    /\ now < MaxClock
    /\ now' = now + 1
    /\ UNCHANGED <<issued, scopes, localDayShift, inv, dbVars, pureVars>>

NextWatermark ==
    \/ StartRepeat(1) \/ Preflight(1) \/ EnsureValidToken(1)
    \/ \E headers \in LedgerHeaders : GetOkWith(1, headers)
    \/ Get429With(1, RateLimitedHeaders)
    \/ StoreSamples(1) \/ LogSuccess(1) \/ LogError(1)
    \/ Settle(1) \/ Elapse
SpecWatermark == InitRepeat /\ [][NextWatermark]_vars

\* the data types the ledger is written for
LoggedTypes == {LogType(TypeOrder[k]) : k \in 1..Len(TypeOrder)}

\* the success entry for data_type that was appended last
LastSuccessRow(log, data_type) ==
    log[CHOOSE k \in SuccessRows(log, data_type) :
            \A j \in SuccessRows(log, data_type) : j <= k]

\* C32: after any sequence of pipeline runs executed one after another,
\* get_latest_sync_time(t) returns the last_sync_time of the success entry for t that
\* was appended last, or null when there is none; and appending an error entry for t
\* never changes the value it returns.
C32_WatermarkIsLastSuccess ==
    [][\A t \in LoggedTypes :
          /\ \A value \in get_latest_sync_time(sync_log', t) :
                value = IF SuccessRows(sync_log', t) = {}
                        THEN Null
                        ELSE Some(LastSuccessRow(sync_log', t).last_sync_time)
          /\ (/\ Len(sync_log') = Len(sync_log) + 1
              /\ Last(sync_log').data_type = t
              /\ Last(sync_log').status = "error") =>
                get_latest_sync_time(sync_log', t) = get_latest_sync_time(sync_log, t)]_vars

(***************************************************************************)
(* Two invocations running concurrently while the clock runs              *)
(***************************************************************************)
NextOverlap == NextRace \/ Elapse
SpecOverlap == InitRace /\ [][NextOverlap]_vars

\* C33: for any interleaving of concurrent sync invocations the watermark of a data
\* type never moves backwards: a newly appended success entry for type t has a
\* last_sync_time greater than or equal to that of every success entry for t that
\* was appended before it.
C33_WatermarkNeverMovesBack ==
    [][(/\ Len(sync_log') = Len(sync_log) + 1
        /\ Last(sync_log').status = "success") =>
          \A k \in SuccessRows(sync_log, Last(sync_log').data_type) :
              sync_log[k].last_sync_time <= Last(sync_log').last_sync_time]_vars

(***************************************************************************)
(* FitbitService.processStepsData                                          *)
(***************************************************************************)
maxBlockMinutes == 15

inactiveThresholdShort == 10 - 1
inactiveThresholdMinutes == 10

\* currentBlock = null
NoBlock == [open |-> FALSE, startTime |-> 0, endTime |-> 0, totalSteps |-> 0, minutes |-> 0]

\* { startTime: timestamp, endTime: timestamp, totalSteps: steps, minutes: 1 }
NewBlock(i, steps) ==
    [open |-> TRUE, startTime |-> i, endTime |-> i, totalSteps |-> steps, minutes |-> 1]

\* samples.push({type:'steps', value: totalSteps, datetime: endTime}); the block's
\* startTime is kept next to the sample so that the extent of the block can be stated.
StepSample(blk) ==
    [type |-> "steps", value |-> blk.totalSteps, datetime |-> blk.endTime,
     startTime |-> blk.startTime]

\* The look-ahead of the zero branch: the count of zero minutes from j on, up to
\* (not including) lim, stopping at the first non-zero minute.
RECURSIVE ZeroCount(_, _, _)
ZeroCount(ds, j, lim) ==
    IF j >= lim THEN 0
    ELSE IF ds[j] = 0 THEN 1 + ZeroCount(ds, j + 1, lim)
    ELSE 0

\* One pass of the for loop, minute i (1-based), and the rest of the loop after it.
RECURSIVE StepsLoop(_, _, _, _)
StepsLoop(ds, i, currentBlock, samples) ==
    IF i > Len(ds)
    THEN IF currentBlock.open
         THEN Append(samples, StepSample(currentBlock))
         ELSE samples
    ELSE LET steps == ds[i] IN
         IF steps > 0
         THEN IF ~currentBlock.open
              THEN StepsLoop(ds, i + 1, NewBlock(i, steps), samples)
              ELSE LET grown == [currentBlock EXCEPT !.endTime = i,
                                                     !.totalSteps = @ + steps,
                                                     !.minutes = @ + 1]
                   IN IF grown.minutes >= maxBlockMinutes
                      THEN StepsLoop(ds, i + 1, NewBlock(i, steps),
                                     Append(samples, StepSample(grown)))
                      ELSE StepsLoop(ds, i + 1, grown, samples)
         ELSE IF currentBlock.open
                 /\ ZeroCount(ds, i, Min(i + inactiveThresholdMinutes, Len(ds) + 1))
                        >= inactiveThresholdMinutes
              THEN StepsLoop(ds, i + 1, NoBlock, Append(samples, StepSample(currentBlock)))
              ELSE StepsLoop(ds, i + 1, currentBlock, samples)

processStepsData(ds) == StepsLoop(ds, 1, NoBlock, <<>>)

StepsInit ==
    /\ dataset \in StepsInputs
    /\ stepSamples = <<>>
    /\ stepsPc = "input"

RunProcessStepsData ==
    /\ stepsPc = "input"
    /\ stepSamples' = processStepsData(dataset)
    /\ stepsPc' = "done"
    /\ UNCHANGED <<dataset, syncVars, storeVars, segVars>>

InitSteps == StepsInit /\ SyncIdle /\ StoreIdle /\ SegIdle
NextSteps == RunProcessStepsData
SpecSteps == InitSteps /\ [][NextSteps]_vars

(***************************************************************************)
(* Claims about processStepsData                                           *)
(***************************************************************************)

\* C9: the values of the emitted steps samples sum to the sum of the input step
\* counts: no minute is dropped and none is counted in two samples.
C9_StepsSumPreserved ==
    stepsPc = "done" =>
        SumSeq([k \in 1..Len(stepSamples) |-> stepSamples[k].value]) = SumSeq(dataset)

\* The source has a run of at least 10 consecutive zero minutes lying strictly
\* between minute a and minute b.
ZeroGapBetween(ds, a, b) ==
    \E s \in (a + 1)..(b - 10) : \A m \in s..(s + 9) : ds[m] = 0

PositiveMinutes(ds, a, b) == Cardinality({m \in a..b : ds[m] > 0})

C11_BlockSpanAtMost15 ==
    stepsPc = "done" =>
        \A k \in 1..Len(stepSamples) :
            stepSamples[k].datetime - stepSamples[k].startTime + 1 <= 15

(***************************************************************************)
(* The segmentation step of a pipeline, run on its own on the data of an   *)
(* upstream response.  A field of the response that may be missing is a    *)
(* sequence of length 0 (missing) or 1 (present).                          *)
(***************************************************************************)
MaxCalRuns == 2       \* a calories dataset is the concatenation of at most MaxCalRuns runs
MaxCalValue == 2      \* per-minute calories range over 0..MaxCalValue

\* Run lengths: a full 30-minute window, its halves, and a window of 29 + 1 minutes
CalRunLens == {1, 15, 29, 30}

CaloriesInputs ==
    UNION { { Concat([k \in 1..n |-> Run(r[k][1], r[k][2])]) :
                r \in [1..n -> (0..MaxCalValue) \X CalRunLens] } : n \in 0..MaxCalRuns }

\* the daily BMR values of the activities-calories summary (whole calories per minute)
MinutesPerDay == 24 * 60
DailyBMRs == {0, MinutesPerDay}

\* the outcome of a segmentation step
Threw == [threw |-> TRUE, samples |-> <<>>]
Returns(samples) == [threw |-> FALSE, samples |-> samples]

(***************************************************************************)
(* FitbitService.processCaloriesData                                       *)
(***************************************************************************)
CaloriesBlockSize == 30
\* sub-blocks that leave the last two minutes of a split window out
CaloriesSubBlockShort == 15 - 1
CaloriesSubBlockSize == 15

\* dataset.slice(from, to) with 1-based inclusive bounds, clipped to the dataset
Slice(ds, from, to) ==
    IF from > Min(to, Len(ds)) THEN <<>> ELSE SubSeq(ds, from, Min(to, Len(ds)))

\* block.map(dataPoint => Math.max(0, parseFloat(dataPoint.value) - bmrPerMinute))
ActiveCalories(block, bmrPerMinute) ==
    [k \in 1..Len(block) |-> Max(0, block[k] - bmrPerMinute)]

\* a split rule under which no window is ever split
NeverSplit(activeCaloriesArr) == FALSE

\* stddev > 0.2 * avg, with avg = total / n and stddev = sqrt(sum((b - avg)^2) / n);
\* both sides are non-negative, so the test is that of the squares, and multiplying
\* it by 25 * n^3 gives the same test on integers
StddevAboveFifthOfAvg(activeCaloriesArr) ==
    LET n == Len(activeCaloriesArr)
        total == SumSeq(activeCaloriesArr)
        deviations == [k \in 1..n |-> (n * activeCaloriesArr[k] - total)
                                      * (n * activeCaloriesArr[k] - total)]
    IN 25 * SumSeq(deviations) > n * total * total

CalorieSample(value, minute) ==
    [type |-> "activeCalories", value |-> value, datetime |-> minute]

\* the for loop over the two 15-minute sub-blocks of the block that starts at minute i
SubBlockSamples(ds, i, bmrPerMinute) ==
    LET sub(j) == Slice(ds, i + j * CaloriesSubBlockSize, i + (j + 1) * CaloriesSubBlockSize - 1)
        subTotal(j) == SumSeq(ActiveCalories(sub(j), bmrPerMinute))
        one(j) == IF subTotal(j) > 0
                  THEN <<CalorieSample(subTotal(j), i + j * CaloriesSubBlockSize + Len(sub(j)) - 1)>>
                  ELSE <<>>
    IN one(0) \o one(1)

\* the while loop from minute i (1-based) on
RECURSIVE CaloriesLoop(_, _, _, _)
CaloriesLoop(ds, i, bmrPerMinute, samples) ==
    IF i > Len(ds) THEN samples
    ELSE LET block == Slice(ds, i, i + CaloriesBlockSize - 1)
             activeCaloriesArr == ActiveCalories(block, bmrPerMinute)
             total == SumSeq(activeCaloriesArr)
         IN IF StddevAboveFifthOfAvg(activeCaloriesArr)
            THEN CaloriesLoop(ds, i + 30, bmrPerMinute,
                              samples \o SubBlockSamples(ds, i, bmrPerMinute))
            ELSE CaloriesLoop(ds, i + CaloriesBlockSize, bmrPerMinute,
                              IF total > 0
                              THEN Append(samples, CalorieSample(total, i + Len(block) - 1))
                              ELSE samples)

processCaloriesData(ds, bmrPerMinute) == CaloriesLoop(ds, 1, bmrPerMinute, <<>>)

\* syncActivityData on the calories response: activities-calories[0] is read, then
\* the dataset of activities-calories-intraday is handed to processCaloriesData
\* (reading a property of a missing field, or the length of a missing dataset, throws)
CaloriesSegmentation(resp) ==
    IF resp.summary = Null \/ resp.intraday = Null THEN Threw
    ELSE LET summary == resp.summary[1]
             dailyBMR == IF summary = <<>> THEN 0 ELSE summary[1]
             bmrPerMinute == dailyBMR \div MinutesPerDay
         IN IF resp.intraday[1] = Null THEN Threw
            ELSE Returns(processCaloriesData(resp.intraday[1][1], bmrPerMinute))

\* the calories responses: with and without the summary, the intraday field and its
\* dataset
CaloriesResponses ==
    { [summary |-> Some(<<b>>), intraday |-> Some(Some(ds))] :
          b \in DailyBMRs, ds \in CaloriesInputs }
    \cup { [summary |-> sm, intraday |-> it] :
              sm \in {Null, Some(<<>>), Some(<<0>>)},
              it \in {Null, Some(Null), Some(Some(<<>>)), Some(Some(Run(1, 30)))} }

(***************************************************************************)
(* FitbitService.processHeartRateData                                      *)
(***************************************************************************)
MaxHrRuns == 3        \* a heart-rate dataset is the concatenation of at most MaxHrRuns runs

\* Run lengths around the minimum block size and the two target sizes; readings:
\* missing (0), resting and exerting
HrRunLens == {1, 2, 5, 30}
HrValues == {0, 60, 100}

HeartRateInputs ==
    UNION { { Concat([k \in 1..n |-> Run(r[k][1], r[k][2])]) :
                r \in [1..n -> HrValues \X HrRunLens] } : n \in 0..MaxHrRuns }

normalBlockMinutes == 30
exertionBlockMinutes == 5
deviationThreshold == 15
minBlockMinutesLow == 3 - 1
minBlockMinutes == 3
rollingWindow == 10
gapThreshold == 5

Abs(x) == IF x < 0 THEN 0 - x ELSE x

\* first pass, minute i (1-based): Math.abs(heartRate - sum / count) > deviationThreshold
\* over the valid readings of the window, multiplied by count to stay in the integers
IsExertion(ds, i) ==
    IF ds[i] > 0
    THEN LET first == Max(1, i - rollingWindow)
             last == Min(Len(ds), i + rollingWindow - 1)
             window == first..last
             valid == [k \in 1..(last - first + 1) |->
                          IF ds[first + k - 1] > 0 THEN ds[first + k - 1] ELSE 0]
             sum == SumSeq(valid)
             count == Cardinality({j \in window : ds[j] > 0})
         IN Abs(ds[i] * count - sum) > deviationThreshold * count
    ELSE FALSE

\* currentBlock = null
NoHrBlock ==
    [open |-> FALSE, startTime |-> 0, endTime |-> 0, heartRates |-> <<>>, minutes |-> 0,
     isExertionBlock |-> FALSE, targetSize |-> 0]

TargetBlockSize(isExertion) ==
    IF isExertion THEN exertionBlockMinutes ELSE normalBlockMinutes

NewHrBlock(i, heartRate, isExertion) ==
    [open |-> TRUE, startTime |-> i, endTime |-> i, heartRates |-> <<heartRate>>,
     minutes |-> 1,
     isExertionBlock |-> isExertion, targetSize |-> TargetBlockSize(isExertion)]

\* Math.round(sum / length) of positive readings
RoundedMean(heartRates) ==
    (2 * SumSeq(heartRates) + Len(heartRates)) \div (2 * Len(heartRates))

\* samples.push({type: 'heartRate', value: averageHR, datetime: endTime}); the number
\* of readings averaged and the minute of the first of them are kept next to the
\* sample so that they can be stated
HeartRateSample(blk) ==
    [type |-> "heartRate", value |-> RoundedMean(blk.heartRates), datetime |-> blk.endTime,
     readings |-> Len(blk.heartRates), firstMinute |-> blk.startTime]

\* second pass, minute i (1-based): the body of the for loop, from the block and the
\* samples before the minute to those after it
HeartRateStep(ds, i, st) ==
    LET currentBlock == st.currentBlock
        samples == st.samples
    IN IF ds[i] > 0
       THEN LET isExertion == IsExertion(ds, i) IN
            IF ~currentBlock.open
            THEN [currentBlock |-> NewHrBlock(i, ds[i], isExertion), samples |-> samples]
            ELSE LET blockTypeChanged == currentBlock.isExertionBlock # isExertion
                     blockSizeReached == currentBlock.minutes >= currentBlock.targetSize
                     minSizeReached == currentBlock.minutes >= minBlockMinutes
                     grown == [currentBlock EXCEPT !.endTime = i,
                                                   !.heartRates = Append(@, ds[i]),
                                                   !.minutes = @ + 1]
                 IN IF (blockTypeChanged /\ minSizeReached) \/ blockSizeReached
                    THEN [currentBlock |-> NewHrBlock(i, ds[i], isExertion),
                          samples |-> Append(samples, HeartRateSample(currentBlock))]
                    ELSE IF ~minSizeReached
                         THEN [currentBlock |->
                                   [grown EXCEPT !.isExertionBlock = isExertion,
                                                 !.targetSize = TargetBlockSize(isExertion)],
                               samples |-> samples]
                         ELSE [currentBlock |-> grown, samples |-> samples]
       ELSE IF /\ currentBlock.open
               /\ ZeroCount(ds, i, Min(i + gapThreshold, Len(ds) + 1)) >= gapThreshold
               /\ currentBlock.minutes >= minBlockMinutes
            THEN [currentBlock |-> NoHrBlock,
                  samples |-> Append(samples, HeartRateSample(currentBlock))]
            ELSE st

\* second pass: the minutes lo..hi in order, starting from st.  The minutes are taken
\* one by one, from the first to the last; the range is halved and the state after
\* its first half is evaluated (its minute count is looked at) before the second
\* half is entered, which keeps the evaluation shallow on a long dataset.
RECURSIVE HeartRateLoop(_, _, _, _)
HeartRateLoop(ds, lo, hi, st) ==
    IF lo > hi
    THEN st
    ELSE IF lo = hi
         THEN HeartRateStep(ds, lo, st)
         ELSE LET mid == (lo + hi) \div 2
                  half == HeartRateLoop(ds, lo, mid, st)
              IN IF half.currentBlock.minutes >= 0
                 THEN HeartRateLoop(ds, mid + 1, hi, half)
                 ELSE half

\* the two passes, and the last block after the loop
processHeartRateData(ds) ==
    LET st == HeartRateLoop(ds, 1, Len(ds), [currentBlock |-> NoHrBlock, samples |-> <<>>])
    IN IF st.currentBlock.open /\ st.currentBlock.minutes >= minBlockMinutes
       THEN Append(st.samples, HeartRateSample(st.currentBlock))
       ELSE st.samples

\* syncHeartRateData: response.data['activities-heart-intraday']?.dataset || []
HeartRateSegmentation(resp) ==
    LET dataset0 == IF resp.intraday = Null THEN Null ELSE resp.intraday[1]
    IN Returns(processHeartRateData(IF dataset0 = Null THEN <<>> ELSE dataset0[1]))

HeartRateResponses ==
    { [intraday |-> Some(Some(ds))] : ds \in HeartRateInputs }
    \cup { [intraday |-> Null], [intraday |-> Some(Null)] }

(***************************************************************************)
(* FitbitService.syncSleepData: the expansion of the sleep logs            *)
(***************************************************************************)
MaxIntervals == 2     \* a sleep log has at most MaxIntervals entries in data / shortData

\* the entries of levels.data: two stages, the second starting when the first ends
MainStages ==
    { [level |-> lv, dateTime |-> t, seconds |-> 30] : lv \in {"light", "deep"}, t \in {0, 30} }

\* the entries of levels.shortData: short wakes lying inside a main stage, one of them
\* ending with it, and entries of another level
ShortEntries ==
    { [level |-> lv, dateTime |-> t, seconds |-> 10] : lv \in {"wake", "light"}, t \in {10, 20} }

SeqsUpTo(S, n) == UNION { [1..m -> S] : m \in 0..n }

SleepLogs ==
    { [levels |-> Some([data |-> Some(main), shortData |-> short])] :
          main \in SeqsUpTo(MainStages, MaxIntervals),
          short \in {Null} \cup { Some(q) : q \in SeqsUpTo(ShortEntries, MaxIntervals) } }
    \cup { [levels |-> Null],
           [levels |-> Some([data |-> Null, shortData |-> Null])],
           [levels |-> Some([data |-> Null,
                             shortData |-> Some(<<[level |-> "wake", dateTime |-> 10, seconds |-> 10]>>)])] }

SleepSample(value, interval) ==
    [type |-> "sleepAnalysis", value |-> value,
     datetime |-> interval.dateTime + interval.seconds]

\* the samples of the short wakes of a log
ShortWakeSamples(shortData) ==
    LET wakes == SelectSeq(shortData, LAMBDA shortWake : shortWake.level = "wake")
    IN [k \in 1..Len(wakes) |-> SleepSample("awake", wakes[k])]

\* an expansion in which a short wake replaces the main stages it lies in
SleepLogSamplesOverride(sleepLog) ==
    IF sleepLog.levels # Null /\ sleepLog.levels[1].data # Null
    THEN LET levels == sleepLog.levels[1]
             wakes == IF levels.shortData = Null THEN <<>>
                      ELSE SelectSeq(levels.shortData[1], LAMBDA w : w.level = "wake")
             covered(stage) ==
                 \E k \in 1..Len(wakes) :
                     /\ stage.dateTime <= wakes[k].dateTime
                     /\ wakes[k].dateTime + wakes[k].seconds <= stage.dateTime + stage.seconds
             kept == SelectSeq(levels.data[1], LAMBDA stage : ~covered(stage))
         IN [k \in 1..Len(kept) |-> SleepSample(kept[k].level, kept[k])]
            \o ShortWakeSamples(wakes)
    ELSE <<>>

\* the body of `for (const sleepLog of sleepLogs)`
SleepLogSamples(sleepLog) ==
    IF sleepLog.levels # Null /\ sleepLog.levels[1].data # Null
    THEN LET levels == sleepLog.levels[1]
             data == levels.data[1]
         IN [k \in 1..Len(data) |-> SleepSample(data[k].level, data[k])]
            \o (IF levels.shortData # Null THEN ShortWakeSamples(levels.shortData[1]) ELSE <<>>)
    ELSE <<>>

\* syncSleepData: const sleepLogs = response.data.sleep || []
SleepSegmentation(resp) ==
    LET sleepLogs == IF resp.sleep = Null THEN <<>> ELSE resp.sleep[1]
    IN Returns(Concat([k \in 1..Len(sleepLogs) |-> SleepLogSamples(sleepLogs[k])]))

SleepResponses ==
    { [sleep |-> Some(<<log>>)] : log \in SleepLogs }
    \cup { [sleep |-> Null], [sleep |-> Some(<<>>)] }

(***************************************************************************)
(* syncActivityData: the steps response                                    *)
(***************************************************************************)
\* processStepsData(stepsResponse.data['activities-steps-intraday'].dataset, today):
\* reading .dataset of a missing field throws, and so does dataset.length of a
\* missing dataset
StepsSegmentation(resp) ==
    IF resp.intraday = Null THEN Threw
    ELSE IF resp.intraday[1] = Null THEN Threw
    ELSE Returns(processStepsData(resp.intraday[1][1]))

StepsResponses ==
    { [intraday |-> Some(Some(Run(v, n)))] : v \in 0..MaxStepValue, n \in RunLens }
    \cup { [intraday |-> Null], [intraday |-> Some(Null)], [intraday |-> Some(Some(<<>>))] }

(***************************************************************************)
(* One segmentation step, run on one response                              *)
(***************************************************************************)
SegInit ==
    /\ \/ segKind = "steps" /\ response \in StepsResponses
       \/ segKind = "calories" /\ response \in CaloriesResponses
       \/ segKind = "heartrate" /\ response \in HeartRateResponses
       \/ segKind = "sleep" /\ response \in SleepResponses
    /\ segSamples = <<>>
    /\ segPc = "input"

\* the step returned its samples, or threw
Segmented(outcome) ==
    /\ segPc = "input"
    /\ segSamples' = outcome.samples
    /\ segPc' = IF outcome.threw THEN "threw" ELSE "done"
    /\ UNCHANGED <<segKind, response, stepsVars, storeVars, syncVars>>

SegmentSteps == segKind = "steps" /\ Segmented(StepsSegmentation(response))
SegmentCalories == segKind = "calories" /\ Segmented(CaloriesSegmentation(response))
SegmentHeartRate == segKind = "heartrate" /\ Segmented(HeartRateSegmentation(response))
SegmentSleep == segKind = "sleep" /\ Segmented(SleepSegmentation(response))

InitSegment == SegInit /\ StepsIdle /\ StoreIdle /\ SyncIdle
NextSegment == SegmentSteps \/ SegmentCalories \/ SegmentHeartRate \/ SegmentSleep
SpecSegment == InitSegment /\ [][NextSegment]_vars

(***************************************************************************)
(* Claims about the segmentation steps                                     *)
(***************************************************************************)

\* the calories step ran on a response that has its summary and its dataset
CaloriesRan ==
    /\ segKind = "calories" /\ segPc = "done"
    /\ response.summary # Null /\ response.intraday # Null /\ response.intraday[1] # Null

CalDataset == response.intraday[1][1]
CalBmr == IF response.summary[1] = <<>> THEN 0 ELSE response.summary[1][1] \div 1440

\* the active calories of the minutes a..b of the dataset
ActiveOf(a, b) == [k \in 1..(b - a + 1) |-> Max(0, CalDataset[a + k - 1] - CalBmr)]

\* the population standard deviation of arr exceeds 0.2 x its mean: the variance,
\* mean of the squares minus square of the mean, exceeds 0.04 x mean^2
StdDevExceeds(arr) ==
    LET n == Len(arr)
        squares == [k \in 1..n |-> arr[k] * arr[k]]
    IN 25 * n * SumSeq(squares) > 26 * SumSeq(arr) * SumSeq(arr)

\* the emitted samples whose timestamp lies in the minutes a..b
SamplesIn(a, b) == SelectSeq(segSamples, LAMBDA sm : sm.datetime \in a..b)

\* the sample the claim expects for the minutes a..b
Expected(a, b) == [type |-> "activeCalories", value |-> SumSeq(ActiveOf(a, b)), datetime |-> b]
ExpectedIfActive(a, b) == IF SumSeq(ActiveOf(a, b)) > 0 THEN <<Expected(a, b)>> ELSE <<>>

\* C12 (as stated): a full 30-minute window with a positive active sum yields exactly
\* one sample (window sum, last minute) when the standard deviation is at most
\* 0.2 x mean, and exactly two samples (one per 15-minute half) when it exceeds it.
C12_OneOrTwoSamples ==
    CaloriesRan =>
        \A w \in 1..(Len(CalDataset) \div 30) :
            LET a == 30 * (w - 1) + 1
                b == 30 * w
            IN SumSeq(ActiveOf(a, b)) > 0 =>
                  IF StdDevExceeds(ActiveOf(a, b))
                  THEN SamplesIn(a, b) = <<Expected(a, a + 14), Expected(a + 15, b)>>
                  ELSE SamplesIn(a, b) = <<Expected(a, b)>>

\* C12 (amended): ... and, when the standard deviation exceeds 0.2 x mean, one sample
\* for each 15-minute half whose active sum is positive (two samples, or one when a
\* half has no active calories).
C12_OnePerActiveHalf ==
    CaloriesRan =>
        \A w \in 1..(Len(CalDataset) \div 30) :
            LET a == 30 * (w - 1) + 1
                b == 30 * w
            IN SumSeq(ActiveOf(a, b)) > 0 =>
                  IF StdDevExceeds(ActiveOf(a, b))
                  THEN SamplesIn(a, b) = ExpectedIfActive(a, a + 14) \o ExpectedIfActive(a + 15, b)
                  ELSE SamplesIn(a, b) = <<Expected(a, b)>>

\* a full window of uneven minutes whose first half has no active calories was
\* segmented into the one sample of its second half
C12_Witness ==
    /\ CaloriesRan
    /\ Len(CalDataset) = 30
    /\ StdDevExceeds(ActiveOf(1, 30))
    /\ SumSeq(ActiveOf(1, 15)) = 0
    /\ Len(segSamples) = 1

\* C37: for every per-minute calorie dataset and every bmr per minute, the values of
\* the emitted activeCalories samples add up to the sum over all minutes of
\* max(0, calories - bmr per minute), also when the length of the dataset is not a
\* multiple of 30 or of 15.
C37_ActiveCaloriesPreserved ==
    CaloriesRan =>
        SumSeq([k \in 1..Len(segSamples) |-> segSamples[k].value])
            = SumSeq(ActiveOf(1, Len(CalDataset)))

\* a dataset that ends with a partial window after a window that was split and whose
\* first half has no active calories: the second half and the partial window gave a
\* sample each
C37_Witness ==
    /\ CaloriesRan
    /\ Len(CalDataset) % 15 # 0 /\ Len(CalDataset) > 30
    /\ StdDevExceeds(ActiveOf(1, 30))
    /\ Len(segSamples) = 2
    /\ segSamples[2].datetime = Len(CalDataset)
    /\ CalBmr > 0

\* the objects a segmentation step pushed onto `samples`, as store_samples receives
\* them: type, value and datetime
EmittedBatch ==
    [k \in 1..Len(segSamples) |->
        [type |-> segSamples[k].type, value |-> Some(segSamples[k].value),
         datetime |-> segSamples[k].datetime]]

\* C38: two distinct samples emitted by one pipeline run never share an identity
\* tuple (type, timestamp, start_time, end_time), so that on an empty samples table
\* the number of rows stored equals the number of samples emitted; in particular a
\* main-stage sleep sample and an "awake" sample of a short wake that ends at the
\* same instant are both stored.
C38_DistinctIdentityTuples ==
    segPc = "done" =>
        /\ \A k, l \in 1..Len(EmittedBatch) :
              EmittedBatch[k] # EmittedBatch[l] =>
                  ~SameIdentity(SampleRow(EmittedBatch[k]), SampleRow(EmittedBatch[l]))
        /\ Len(store_samples(<<>>, EmittedBatch).table) = Len(EmittedBatch)

\* on an empty samples table every emitted sample is stored
C38_EveryEmittedSampleStored ==
    segPc = "done" => Len(store_samples(<<>>, EmittedBatch).table) = Len(EmittedBatch)

\* C13: every emitted heart-rate sample, except possibly the last one of the day, is
\* the average of at least 3 valid readings.
C13_AtLeastThreeReadings ==
    (segKind = "heartrate" /\ segPc = "done") =>
        \A k \in 1..(Len(segSamples) - 1) : segSamples[k].readings >= 3

\* a block was closed with exactly 3 readings and another block followed it
C13_Witness ==
    /\ segKind = "heartrate" /\ segPc = "done"
    /\ Len(segSamples) >= 2
    /\ segSamples[1].readings = 3

\* the heart-rate step ran on a response that has its dataset
HeartRateRan ==
    /\ segKind = "heartrate" /\ segPc = "done"
    /\ response.intraday # Null /\ response.intraday[1] # Null
HrDataset == response.intraday[1][1]

\* the minutes with a valid reading that lie between the first and the last reading
\* of the emitted sample k: the readings the sample averages
AveragedBy(k) ==
    {i \in segSamples[k].firstMinute..segSamples[k].datetime : HrDataset[i] > 0}

\* C35: every valid (> 0) heart-rate minute reading is included in the average of
\* exactly one emitted heartRate sample: none is dropped, none is counted twice.
C35_EveryReadingAveragedOnce ==
    HeartRateRan =>
        /\ \A k \in 1..Len(segSamples) : segSamples[k].readings = Cardinality(AveragedBy(k))
        /\ \A i \in 1..Len(HrDataset) :
              HrDataset[i] > 0 =>
                 Cardinality({k \in 1..Len(segSamples) : i \in AveragedBy(k)}) = 1

\* no reading is averaged by two samples
C35_NoReadingAveragedTwice ==
    HeartRateRan =>
        /\ \A k \in 1..Len(segSamples) : segSamples[k].readings = Cardinality(AveragedBy(k))
        /\ \A i \in 1..Len(HrDataset) :
              Cardinality({k \in 1..Len(segSamples) : i \in AveragedBy(k)}) <= 1

\* a run of gapThreshold invalid minutes starts at minute j
GapAt(j) ==
    /\ j + gapThreshold - 1 <= Len(HrDataset)
    /\ \A m \in j..(j + gapThreshold - 1) : HrDataset[m] = 0

\* C36: no emitted heartRate sample averages readings that lie on both sides of a run
\* of 5 or more consecutive invalid (0) minutes.
C36_NoSampleAcrossGap ==
    HeartRateRan =>
        \A k \in 1..Len(segSamples) :
            ~\E j \in segSamples[k].firstMinute..segSamples[k].datetime : GapAt(j)

\* the dataset the step works on is missing from the response, or empty
DatasetMissingOrEmpty ==
    \/ /\ segKind \in {"steps", "heartrate"}
       /\ (response.intraday = Null \/ response.intraday[1] \in {Null, Some(<<>>)})
    \/ /\ segKind = "calories"
       /\ response.summary # Null
       /\ (response.intraday = Null \/ response.intraday[1] \in {Null, Some(<<>>)})
    \/ /\ segKind = "sleep"
       /\ \/ response.sleep \in {Null, Some(<<>>)}
          \/ response.sleep[1][1].levels = Null
          \/ /\ response.sleep[1][1].levels[1].data \in {Null, Some(<<>>)}
             /\ response.sleep[1][1].levels[1].shortData = Null

\* C14: a segmentation step given an empty dataset, or a response without the dataset
\* field, yields no sample and raises no error.
C14_EmptyInputEmptyOutput ==
    (segPc \in {"done", "threw"} /\ DatasetMissingOrEmpty) =>
        (segPc = "done" /\ segSamples = <<>>)

\* the sleep step ran on one log that has its stage data; its main stages and those of
\* its short entries that are wakes
SleepRan ==
    /\ segKind = "sleep" /\ segPc = "done"
    /\ response.sleep # Null /\ response.sleep[1] # <<>>
    /\ response.sleep[1][1].levels # Null
    /\ response.sleep[1][1].levels[1].data # Null
MainIntervals == response.sleep[1][1].levels[1].data[1]
WakeIntervals ==
    IF response.sleep[1][1].levels[1].shortData = Null THEN <<>>
    ELSE SelectSeq(response.sleep[1][1].levels[1].shortData[1], LAMBDA e : e.level = "wake")

\* the number of emitted samples with this value and timestamp
Emitted(value, timestamp) ==
    Cardinality({k \in 1..Len(segSamples) :
                    segSamples[k].value = value /\ segSamples[k].datetime = timestamp})
\* the number of intervals of q that call for a sample with this value and timestamp
Calling(q, value, timestamp) ==
    Cardinality({k \in 1..Len(q) :
                    q[k].level = value /\ q[k].dateTime + q[k].seconds = timestamp})

MaxBatchLen == 2      \* a batch holds at most MaxBatchLen samples

\* the samples of a batch: an instant sample as the pipelines produce them, a sample
\* without a value, and a sample with a start and an end time in either spelling
AnySamples ==
    { [type |-> "heartRate", value |-> Some(60), datetime |-> 11],
      [type |-> "heartRate", value |-> Null, datetime |-> 12],
      [type |-> "sleepAnalysis", value |-> Some(1), datetime |-> 20,
       startTime |-> 15, endTime |-> 20],
      [type |-> "sleepAnalysis", value |-> Some(1), timestamp |-> 20,
       start_time |-> 15, end_time |-> 20] }

StoreRowsInit ==
    /\ storeBatch \in SeqsUpTo(AnySamples, MaxBatchLen)
    /\ samples_table \in { store_samples(<<>>, <<sample>>).table : sample \in AnySamples }
    /\ storeReturns = <<>>
    /\ tableBefore = samples_table
    /\ now = 0 /\ tokens = <<>> /\ issued = 0 /\ sync_log = <<>>
    /\ scopes = DefaultScopes /\ localDayShift = 0 /\ inv = [i \in Invs |-> IdleInv]

InitStoreRows == StoreRowsInit /\ StepsIdle /\ SegIdle
SpecStoreRows == InitStoreRows /\ [][NextStore]_vars

\* the rows the batch adds to the table when rows without a value and rows that
\* duplicate the identity tuple of a row already there are skipped
RECURSIVE NewRows(_, _)
NewRows(table, batch) ==
    IF batch = <<>> THEN <<>>
    ELSE LET row == SampleRow(Head(batch)) IN
         IF row.value = Null \/ \E k \in 1..Len(table) : SameIdentity(table[k], row)
         THEN NewRows(table, Tail(batch))
         ELSE <<row>> \o NewRows(Append(table, row), Tail(batch))

\* C19: store_samples(batch) returns exactly the number of rows it newly inserted:
\* rows duplicating an existing identity tuple and malformed rows (a null value) are
\* skipped without aborting the batch, and every other row is committed.
C19_ReturnsInsertedCount ==
    Len(storeReturns) >= 1 =>
        /\ samples_table = tableBefore \o NewRows(tableBefore, storeBatch)
        /\ storeReturns[Len(storeReturns)] = Len(NewRows(tableBefore, storeBatch))

====
